---- MODULE Spec2Model ----
(***************************************************************************)
(* Model of the article search service (app/api.py): the /search request   *)
(* handler with its four retrieval modes, the sort clause, Reciprocal Rank *)
(* Fusion, weight normalisation and the search log.                        *)
(*                                                                         *)
(* Floating point scores and weights are modelled as exact rationals       *)
(* <<numerator, denominator>> with a positive denominator.  For the ranks  *)
(* and constants used here two distinct sums 1/(k+i) + 1/(k+j) differ by   *)
(* far more than a double's rounding error, so the order and the ties of   *)
(* the exact values are those of the floats.                               *)
(***************************************************************************)
EXTENDS Integers, Sequences, FiniteSets, TLC

VARIABLES
    pc,            \* position of the /search handler
    request,       \* the SearchRequest being served
    backend,       \* the index as seen by this query: relevance orders, availability
    search_body,   \* the query body under construction / last sent
    responses,     \* backend responses received so far, in order
    results,       \* the list of SearchResult built by the handler
    search_logs,   \* rows of the search_logs table
    outcome,       \* what the caller receives
    trace,         \* the steps the handler has gone through, in order
    fusion,        \* the last call of reciprocal_rank_fusion: arguments and result
    calls,         \* the external calls the handler has made, in order
    qp,            \* the last call of QueryProcessor.process: arguments and results
    sug,           \* the suggestion cache, its reload and its reader
    db             \* the feedback table, the statements run and the last answers

vars == <<pc, request, backend, search_body, responses, results, search_logs,
          outcome, trace, fusion, calls, qp, sug, db>>

----------------------------------------------------------------------------
\* Bounds of the model

\* number of documents in the index (ids 1..NumDocs)
NumDocs == 3

\* largest in-range top_k a request asks for
MaxTopK == 2

\* longest query string given to the QueryProcessor, over the full alphabet
MaxQueryLen == 4

\* longest query string over the letters, digit and space alone
MaxSpellLen == 5

\* number of requests served in a row by the telemetry endpoints
MaxOperations == 3

\* number of runs of load_suggestions
MaxReloads == 2

\* number of hits the backend returns to load_suggestions
MaxHits == 2

\* largest limit of a suggestions request
MaxLimit == 2

----------------------------------------------------------------------------
\* Program constants

\* k=60 in the call of reciprocal_rank_fusion and its default
RRF_K == 60

\* top_k: int = Query(10, ge=1, le=100)
TOP_K_MIN == 1

TOP_K_MAX == 100

----------------------------------------------------------------------------
\* Exact rational arithmetic for the float scores

Rat(n, d) == <<n, d>>

RatAdd(a, b) == <<a[1] * b[2] + b[1] * a[2], a[2] * b[2]>>

RatLess(a, b) == a[1] * b[2] < b[1] * a[2]

RatEq(a, b) == a[1] * b[2] = b[1] * a[2]

RatLeq(a, b) == a[1] * b[2] <= b[1] * a[2]

\* a / b for integers a, b with b # 0, denominator kept positive
RatDiv(a, b) == IF b > 0 THEN <<a, b>> ELSE <<0 - a, 0 - b>>

Min(a, b) == IF a < b THEN a ELSE b

Max(a, b) == IF a > b THEN a ELSE b

\* s[:n] of Python for n >= 0
Take(s, n) == SubSeq(s, 1, Min(n, Len(s)))

Range(s) == {s[i] : i \in DOMAIN s}

\* the sequences over S without a repeated element
RECURSIVE UniqueSeqs(_)
UniqueSeqs(S) ==
    {<<>>} \cup UNION {{<<x>> \o t : t \in UniqueSeqs(S \ {x})} : x \in S}

\* the orderings of all of S
Perms(S) == {s \in UniqueSeqs(S) : Len(s) = Cardinality(S)}

----------------------------------------------------------------------------
\* The index

Docs == 1..NumDocs

\* published_at of a document: two documents may share a date
published_at(d) == d \div 2

\* title of a document (compared as title.keyword): titles are distinct and
\* their alphabetical order is the reverse of the id order
title(d) == NumDocs + 1 - d

\* the _source of document d as the backend returns it (embedding excluded);
\* excerpt stands for the remaining payload fields (excerpt, body_text, tags)
Source(d, payload) ==
    [id |-> d, title |-> title(d), published_at |-> published_at(d),
     excerpt |-> payload]

\* a hit of a response: its _source and its _score
Hit(d, payload, sc) == [source |-> Source(d, payload), score |-> sc]

----------------------------------------------------------------------------
\* reciprocal_rank_fusion

\* the two dicts of the function; ids keeps the insertion order of rrf_scores
EmptyAcc == [ids |-> <<>>, rrf_scores |-> <<>>, doc_data |-> <<>>]

\* FoldHit with the score assigned instead of accumulated
FoldHit_overwrite(acc, hit, k, rank) ==
    LET doc_id == hit.source.id
        seen == \E i \in DOMAIN acc.ids : acc.ids[i] = doc_id
        pos == CHOOSE i \in DOMAIN acc.ids : acc.ids[i] = doc_id
    IN  IF seen
        THEN [acc EXCEPT !.rrf_scores[pos] = Rat(1, k + rank)]
        ELSE [ids |-> Append(acc.ids, doc_id),
              rrf_scores |-> Append(acc.rrf_scores, Rat(1, k + rank)),
              doc_data |-> Append(acc.doc_data, hit.source)]

\* FoldHit that makes a new entry for every hit
FoldHit_no_dedup(acc, hit, k, rank) ==
    [ids |-> Append(acc.ids, hit.source.id),
     rrf_scores |-> Append(acc.rrf_scores, Rat(1, k + rank)),
     doc_data |-> Append(acc.doc_data, hit.source)]

\* FoldHit with ranks counted from 0
FoldHit_zero_based(acc, hit, k, rank) ==
    LET doc_id == hit.source.id
        seen == \E i \in DOMAIN acc.ids : acc.ids[i] = doc_id
        pos == CHOOSE i \in DOMAIN acc.ids : acc.ids[i] = doc_id
        old == IF seen THEN acc.rrf_scores[pos] ELSE Rat(0, 1)
        new == RatAdd(old, Rat(1, k + rank - 1))
    IN  IF seen
        THEN [acc EXCEPT !.rrf_scores[pos] = new]
        ELSE [ids |-> Append(acc.ids, doc_id),
              rrf_scores |-> Append(acc.rrf_scores, new),
              doc_data |-> Append(acc.doc_data, hit.source)]

\* FoldHit that stores the payload of every hit, also of a later one
FoldHit_last_payload(acc, hit, k, rank) ==
    LET doc_id == hit.source.id
        seen == \E i \in DOMAIN acc.ids : acc.ids[i] = doc_id
        pos == CHOOSE i \in DOMAIN acc.ids : acc.ids[i] = doc_id
        old == IF seen THEN acc.rrf_scores[pos] ELSE Rat(0, 1)
        new == RatAdd(old, Rat(1, k + rank))
    IN  IF seen
        THEN [acc EXCEPT !.rrf_scores[pos] = new, !.doc_data[pos] = hit.source]
        ELSE [ids |-> Append(acc.ids, doc_id),
              rrf_scores |-> Append(acc.rrf_scores, new),
              doc_data |-> Append(acc.doc_data, hit.source)]

\* FoldHit that leaves the score of a document already seen as it is
FoldHit_first_only(acc, hit, k, rank) ==
    LET doc_id == hit.source.id
        seen == \E i \in DOMAIN acc.ids : acc.ids[i] = doc_id
    IN  IF seen
        THEN acc
        ELSE [ids |-> Append(acc.ids, doc_id),
              rrf_scores |-> Append(acc.rrf_scores, Rat(1, k + rank)),
              doc_data |-> Append(acc.doc_data, hit.source)]

\* one iteration of "for rank, hit in enumerate(hits, 1)"
FoldHit(acc, hit, k, rank) ==
    LET doc_id == hit.source.id
        seen == \E i \in DOMAIN acc.ids : acc.ids[i] = doc_id
        pos == IF seen THEN CHOOSE i \in DOMAIN acc.ids : acc.ids[i] = doc_id
               ELSE Len(acc.ids) + 1
        old == IF seen THEN acc.rrf_scores[pos] ELSE Rat(0, 1)
        new == RatAdd(old, Rat(1, k + rank))
    IN  IF seen
        THEN [acc EXCEPT !.rrf_scores[pos] = new]
        ELSE [ids |-> Append(acc.ids, doc_id),
              rrf_scores |-> Append(acc.rrf_scores, new),
              doc_data |-> Append(acc.doc_data, hit.source)]

RECURSIVE FoldHits(_, _, _, _)
FoldHits(acc, hits, k, rank) ==
    IF rank > Len(hits) THEN acc
    ELSE FoldHits(FoldHit(acc, hits[rank], k, rank), hits, k, rank + 1)

\* InsertDesc without reverse=True: ascending by score
InsertDesc_ascending(sorted, x) ==
    LET later == {i \in DOMAIN sorted : RatLess(x.score, sorted[i].score)}
        at == IF later = {} THEN Len(sorted) + 1
              ELSE CHOOSE i \in later : \A j \in later : i <= j
    IN  SubSeq(sorted, 1, at - 1) \o <<x>> \o SubSeq(sorted, at, Len(sorted))

\* InsertDesc that puts x before the elements of equal score
InsertDesc_before_equal(sorted, x) ==
    LET later == {i \in DOMAIN sorted : RatLeq(sorted[i].score, x.score)}
        at == IF later = {} THEN Len(sorted) + 1
              ELSE CHOOSE i \in later : \A j \in later : i <= j
    IN  SubSeq(sorted, 1, at - 1) \o <<x>> \o SubSeq(sorted, at, Len(sorted))

\* insert x into a list sorted by score descending, after every element
\* whose score is not smaller (sorted() is stable, also with reverse=True)
InsertDesc(sorted, x) ==
    LET later == {i \in DOMAIN sorted : RatLess(sorted[i].score, x.score)}
        at == IF later = {} THEN Len(sorted) + 1
              ELSE CHOOSE i \in later : \A j \in later : i <= j
    IN  SubSeq(sorted, 1, at - 1) \o <<x>> \o SubSeq(sorted, at, Len(sorted))

RECURSIVE SortedDesc(_, _)
SortedDesc(items, n) ==
    IF n = 0 THEN <<>> ELSE InsertDesc(SortedDesc(items, n - 1), items[n])

\* reciprocal_rank_fusion without the [:top_k] slice
reciprocal_rank_fusion_no_cut(bm25_results, semantic_results, k, top_k) ==
    LET acc1 == FoldHits(EmptyAcc, bm25_results, k, 1)
        acc == FoldHits(acc1, semantic_results, k, 1)
        items == [i \in DOMAIN acc.ids |->
                    [id |-> acc.ids[i], score |-> acc.rrf_scores[i],
                     source |-> acc.doc_data[i]]]
        sorted_docs == SortedDesc(items, Len(items))
    IN  [i \in DOMAIN sorted_docs |->
            [id |-> sorted_docs[i].source.id,
             title |-> sorted_docs[i].source.title,
             excerpt |-> sorted_docs[i].source.excerpt,
             published_at |-> sorted_docs[i].source.published_at,
             score |-> sorted_docs[i].score]]

reciprocal_rank_fusion(bm25_results, semantic_results, k, top_k) ==
    LET acc1 == FoldHits(EmptyAcc, bm25_results, k, 1)
        acc == FoldHits(acc1, semantic_results, k, 1)
        items == [i \in DOMAIN acc.ids |->
                    [id |-> acc.ids[i], score |-> acc.rrf_scores[i],
                     source |-> acc.doc_data[i]]]
        sorted_docs == Take(SortedDesc(items, Len(items)), top_k)
    IN  [i \in DOMAIN sorted_docs |->
            [id |-> sorted_docs[i].source.id,
             title |-> sorted_docs[i].source.title,
             excerpt |-> sorted_docs[i].source.excerpt,
             published_at |-> sorted_docs[i].source.published_at,
             score |-> sorted_docs[i].score]]

----------------------------------------------------------------------------
\* QueryProcessor: a string is a sequence of characters, a character a
\* one-element name

\* the characters of the queries: letters of both cases, a digit, two kinds
\* of whitespace, the two default keep characters, a punctuation mark and a
\* letter outside ASCII (e with acute accent, lowercase)
Chars == {"a", "b", "A", "1", " ", "\t", "-", "'", "!", "e_acute"}

\* the characters of the longer queries
SpellChars == {"a", "b", "1", " "}

\* the strings over S of length up to n
Strings(S, n) == UNION {[1..m -> S] : m \in 0..n}

\* str.isspace, and \s of the regular expressions
isspace(c) == c \in {" ", "\t"}

\* str.isdigit
isdigit(c) == c = "1"

\* str.lower
lower(query) == [i \in DOMAIN query |-> IF query[i] = "A" THEN "a" ELSE query[i]]

RECURSIVE lstrip(_)
\* the string without its leading whitespace
lstrip(query) ==
    IF query # <<>> /\ isspace(Head(query)) THEN lstrip(Tail(query)) ELSE query

RECURSIVE rstrip(_)
\* the string without its trailing whitespace
rstrip(query) ==
    IF query # <<>> /\ isspace(query[Len(query)])
    THEN rstrip(SubSeq(query, 1, Len(query) - 1))
    ELSE query

\* str.strip
strip(query) == rstrip(lstrip(query))

RECURSIVE sub_whitespace(_)
\* re.sub(r'\s+', ' ', query): every maximal run of whitespace becomes one space
sub_whitespace(query) ==
    IF query = <<>> THEN <<>>
    ELSE IF isspace(Head(query))
         THEN <<" ">> \o sub_whitespace(lstrip(Tail(query)))
         ELSE <<Head(query)>> \o sub_whitespace(Tail(query))

\* normalize that keeps the whitespace runs
normalize_no_collapse(query) == lower(strip(query))

\* QueryProcessor.normalize: strip, lower, collapse whitespace
normalize(query) == sub_whitespace(lower(strip(query)))

\* the default keep_chars, "-'"
KeepChars == {"-", "'"}

\* the characters of the classes a-z, A-Z and 0-9 of the pattern
AsciiAlnum == {"a", "b", "A", "1"}

\* QueryProcessor.remove_special_chars: delete what the pattern
\* [^a-zA-Z0-9\s<keep_chars>] matches, collapse whitespace, strip
remove_special_chars(query, keep_chars) ==
    strip(sub_whitespace(SelectSeq(query,
        LAMBDA c : c \in AsciiAlnum \/ isspace(c) \/ c \in keep_chars)))

\* the length of the first word of a string that starts with one
WordLen(query) ==
    IF \E i \in DOMAIN query : isspace(query[i])
    THEN (CHOOSE i \in DOMAIN query :
              isspace(query[i]) /\ \A j \in 1..(i - 1) : ~isspace(query[j])) - 1
    ELSE Len(query)

RECURSIVE split(_)
\* str.split(): the words between the whitespace runs
split(query) ==
    LET rest == lstrip(query) IN
    IF rest = <<>> THEN <<>>
    ELSE <<SubSeq(rest, 1, WordLen(rest))>>
             \o split(SubSeq(rest, WordLen(rest) + 1, Len(rest)))

RECURSIVE join(_)
\* ' '.join(words)
join(words) ==
    IF words = <<>> THEN <<>>
    ELSE IF Len(words) = 1 THEN words[1]
    ELSE words[1] \o <<" ">> \o join(Tail(words))

\* SpellChecker.correction under a fixed dictionary: a word without "b" is
\* known and comes back as it is, a word of "b"s alone has no candidate
\* (None, the empty value here), any other word comes back with "a" for
\* each "b"
correction(word) ==
    IF \A i \in DOMAIN word : word[i] # "b" THEN word
    ELSE IF \A i \in DOMAIN word : word[i] = "b" THEN <<>>
    ELSE [i \in DOMAIN word |-> IF word[i] = "b" THEN "a" ELSE word[i]]

\* skip the short words only
ShouldSkip_short_only(word) == Len(word) <= 2

\* the words spell_check does not look up: very short ones, ones with a digit
ShouldSkip(word) == Len(word) <= 2 \/ \E i \in DOMAIN word : isdigit(word[i])

RECURSIVE CheckWords(_, _)
\* the loop of spell_check over the words
CheckWords(words, acc) ==
    IF words = <<>> THEN acc
    ELSE LET word == Head(words)
             corrected_word == correction(word)
         IN  CheckWords(Tail(words),
                IF ShouldSkip(word)
                THEN [acc EXCEPT !.corrected_words = Append(@, word)]
                ELSE IF corrected_word # <<>> /\ corrected_word # word
                THEN [acc EXCEPT !.corrected_words = Append(@, corrected_word),
                                 !.was_corrected = TRUE,
                                 !.consulted = Append(@, word)]
                ELSE [acc EXCEPT !.corrected_words = Append(@, word),
                                 !.consulted = Append(@, word)])

\* QueryProcessor.spell_check: the returned pair (text, was_corrected), with
\* the list of corrected words and the words given to the dictionary
spell_check(query) ==
    LET acc == CheckWords(split(query),
                   [text |-> <<>>, was_corrected |-> FALSE,
                    corrected_words |-> <<>>, consulted |-> <<>>])
    IN  [acc EXCEPT !.text = join(acc.corrected_words)]

\* process that reports any change of the text as a correction
process_flag_on_change(query, apply_spell_check) ==
    IF query = <<>> \/ strip(query) = <<>> THEN <<query, FALSE>>
    ELSE LET cleaned == remove_special_chars(normalize(query), KeepChars)
             checked == spell_check(cleaned)
         IN  IF apply_spell_check
             THEN <<checked.text, checked.text # query>>
             ELSE <<cleaned, cleaned # query>>

\* QueryProcessor.process
process(query, apply_spell_check) ==
    IF query = <<>> \/ strip(query) = <<>> THEN <<query, FALSE>>
    ELSE LET cleaned == remove_special_chars(normalize(query), KeepChars)
             checked == spell_check(cleaned)
         IN  IF apply_spell_check
             THEN <<checked.text, checked.was_corrected>>
             ELSE <<cleaned, FALSE>>

----------------------------------------------------------------------------
\* The request and the query builders

SearchTypes == {"bm25", "semantic", "hybrid", "rrf"}

SortBys == {"relevance", "date_desc", "date_asc", "title_az"}

\* top_k values a client sends: in range, and one above the GET limit.
\* top_k <= 0 is left out: the backend refuses a negative size and a knn
\* query with k = 0, so such a request never gets past its first search.
TopKVals == (1..MaxTopK) \cup {TOP_K_MAX + 1}

\* (bm25_weight, vector_weight) pairs a client sends
WeightPairs ==
    {<<Rat(1, 2), Rat(1, 2)>>, <<Rat(0, 1), Rat(0, 1)>>,
     <<Rat(1, 5), Rat(4, 5)>>, <<Rat(1, 1), Rat(3, 1)>>,
     <<Rat(0 - 1, 1), Rat(3, 1)>>, <<Rat(0 - 1, 1), Rat(1, 1)>>}

\* (a/b) / (c/d) with c # 0
RatQuot(a, b) == RatDiv(a[1] * b[2], a[2] * b[1])

\* model.encode(text): the embedding is known by the text it was computed from
encode(text) == [embedding_of |-> text]

\* a body without a knn clause has no vector
NoVector == [embedding_of |-> <<"none">>]

NoBody ==
    [kind |-> "none", size |-> 0, k |-> 0, sort |-> "none",
     bm25_boost |-> Rat(1, 1), vector_boost |-> Rat(1, 1),
     query |-> <<>>, vector |-> NoVector]

build_bm25_query(query, top_k) ==
    [NoBody EXCEPT !.kind = "multi_match", !.size = top_k, !.query = query]

build_semantic_query(query_embedding, top_k) ==
    [NoBody EXCEPT !.kind = "knn", !.size = top_k, !.k = top_k,
                   !.vector = query_embedding]

build_hybrid_query(query, query_embedding, top_k, bm25_weight, vector_weight) ==
    [NoBody EXCEPT !.kind = "bool", !.size = top_k, !.k = top_k * 2,
                   !.bm25_boost = bm25_weight, !.vector_boost = vector_weight,
                   !.query = query, !.vector = query_embedding]

\* "Normalize weights" of the hybrid branch
NormalizeWeights(bm25_weight, vector_weight) ==
    LET total_weight == RatAdd(bm25_weight, vector_weight)
    IN  IF total_weight[1] = 0
        THEN <<Rat(1, 2), Rat(1, 2)>>
        ELSE <<RatQuot(bm25_weight, total_weight),
               RatQuot(vector_weight, total_weight)>>

apply_sort(body, sort_by) ==
    IF sort_by = "relevance" THEN body ELSE [body EXCEPT !.sort = sort_by]

----------------------------------------------------------------------------
\* The backend: client.search(index, body)

\* d1 comes strictly before d2 under the sort clause (first sort key only)
KeyBefore(sort, d1, d2) ==
    CASE sort = "date_desc" -> published_at(d1) > published_at(d2)
      [] sort = "date_asc"  -> published_at(d1) < published_at(d2)
      [] sort = "title_az"  -> title(d1) < title(d2)
      [] OTHER              -> FALSE

\* insert d after every document that does not come strictly after it: the
\* second sort key is "_score", the order of the relevance list
InsertByKey(sorted, d, sort) ==
    LET later == {i \in DOMAIN sorted : KeyBefore(sort, d, sorted[i])}
        at == IF later = {} THEN Len(sorted) + 1
              ELSE CHOOSE i \in later : \A j \in later : i <= j
    IN  SubSeq(sorted, 1, at - 1) \o <<d>> \o SubSeq(sorted, at, Len(sorted))

RECURSIVE SortByKey(_, _, _)
SortByKey(rel, n, sort) ==
    IF n = 0 THEN <<>> ELSE InsertByKey(SortByKey(rel, n - 1, sort), rel[n], sort)

\* the documents the query matches, best first
Matching(be, body) ==
    CASE body.kind = "multi_match" -> be.lex
      [] body.kind = "knn"         -> Take(be.sem, body.k)
      [] body.kind = "bool"        -> be.hyb
      [] OTHER                     -> <<>>

\* position of d in the relevance list rel
PosIn(rel, d) == CHOOSE i \in DOMAIN rel : rel[i] = d

\* the hits for the documents of page; the _score of a hit falls with its
\* position in the relevance list rel
HitsOf(page, rel, payload) ==
    [i \in DOMAIN page |->
        Hit(page[i], payload, Rat(Len(rel) + 1 - PosIn(rel, page[i]), 1))]

Execute(be, body) ==
    LET rel == Matching(be, body)
        ordered == IF body.sort = "none" THEN rel
                   ELSE SortByKey(rel, Len(rel), body.sort)
        page == Take(ordered, body.size)
    IN  [total |-> Len(rel), hits |-> HitsOf(page, rel, "text")]

\* "Format results" of the bm25, semantic and hybrid branches
FormatResults(hits) ==
    [i \in DOMAIN hits |->
        [id |-> hits[i].source.id,
         title |-> hits[i].source.title,
         excerpt |-> hits[i].source.excerpt,
         published_at |-> hits[i].source.published_at,
         score |-> hits[i].score]]

----------------------------------------------------------------------------
\* The /search handler, one action per step of search_articles

\* None in a text field of a response or of a log row
Null == <<"NULL">>

NoOutcome ==
    [status |-> 0, detail |-> "", total_results |-> 0, results |-> <<>>,
     search_log_id |-> 0, query |-> <<>>, processed_query |-> Null]

\* "Use processed query for search": the processed query, or the original
\* one when the processed one is empty
search_query == IF qp.processed[1] # <<>> THEN qp.processed[1] ELSE request.query

\* query_embedding = model.encode(search_query)
query_embedding == encode(search_query)

\* an external call of the handler: what was called, with which query body (a
\* search), and how it ended: "ok" (returned), "false" (exists returned
\* False) or "raised"
Call(op, result) ==
    [op |-> op, result |-> result,
     body |-> IF op = "search" THEN search_body
              ELSE IF op = "encode" THEN [NoBody EXCEPT !.query = search_query]
              ELSE NoBody]

\* no call of QueryProcessor.process yet
NoQuery ==
    [called |-> FALSE, raw |-> <<>>, apply_spell_check |-> TRUE,
     normalized |-> <<>>, stripped |-> <<>>,
     spell |-> [text |-> <<>>, was_corrected |-> FALSE,
                corrected_words |-> <<>>, consulted |-> <<>>],
     processed |-> <<<<>>, FALSE>>]

\* the suggestion cache before startup: the module's empty list, no reload
\* and no reader under way
NoSuggestions ==
    [heap |-> <<<<>>>>, suggestions_cache |-> 1, last_loaded |-> <<>>,
     reloads |-> 0,
     loader |-> [pc |-> "idle", titles |-> {}],
     reader |-> [pc |-> "idle", q |-> <<>>, limit |-> 0, list |-> 1,
                 bound |-> <<>>, pos |-> 0, matches |-> <<>>, result |-> <<>>]]

\* a statement run on the database: by which function, and what it does to
\* which table
Statement(by, verb, table) == [by |-> by, verb |-> verb, table |-> table]

\* INSERT that overwrites the newest row
InsertRow_replace(table, row) ==
    IF table = <<>> THEN <<[row EXCEPT !.id = 1]>>
    ELSE [table EXCEPT ![Len(table)] = [row EXCEPT !.id = Len(table)]]

\* INSERT INTO a table whose id is INTEGER PRIMARY KEY AUTOINCREMENT, where
\* no row is ever deleted: the new row gets the next id
InsertRow(table, row) == Append(table, [row EXCEPT !.id = Len(table) + 1])

\* database.log_search: the search_logs table after the call
log_search(table, query, processed_query, search_type, sort_by, total_results, results_returned) ==
    InsertRow(table,
        [id |-> 0, query |-> query, processed_query |-> processed_query,
         search_type |-> search_type, sort_by |-> sort_by,
         total_results |-> total_results, results_returned |-> results_returned])

\* database.save_feedback: the feedback table after the call
save_feedback(table, doc_id, rating, search_log_id) ==
    InsertRow(table,
        [id |-> 0, doc_id |-> doc_id, rating |-> rating,
         search_log_id |-> search_log_id])

\* the feedback database before any request
NoDatabase ==
    [feedback |-> <<>>, statements |-> <<>>, operations |-> 0,
     last |-> [op |-> "none", rating |-> 0, status |-> 0, id |-> 0]]

NoFusion ==
    [called |-> FALSE, bm25_results |-> <<>>, semantic_results |-> <<>>,
     k |-> 0, top_k |-> 0, results |-> <<>>]

NoRequest ==
    [entry |-> "none", query |-> <<>>, search_type |-> "none", top_k |-> 0,
     bm25_weight |-> Rat(1, 2), vector_weight |-> Rat(1, 2), sort_by |-> "relevance"]

\* the relevance orders the index can have for the query of a request: the
\* lexical matches, the nearest-neighbour order of the documents that have
\* an embedding (the index is filled outside this service, so a document
\* can lack one), and the matches of the combined bool query; only the ones the mode queries are kept
Backends(search_type) ==
    {[lex |-> l, sem |-> s, hyb |-> h] :
        l \in IF search_type \in {"bm25", "rrf"} THEN UniqueSeqs(Docs) ELSE {<<>>},
        s \in IF search_type \in {"semantic", "rrf"} THEN UniqueSeqs(Docs) ELSE {<<>>},
        h \in IF search_type = "hybrid" THEN UniqueSeqs(Docs) ELSE {<<>>}}

\* the ge/le constraints of the GET endpoint's Query parameters
GetParamsValid(r) ==
    /\ r.top_k >= TOP_K_MIN /\ r.top_k <= TOP_K_MAX
    /\ RatLeq(Rat(0, 1), r.bm25_weight) /\ RatLeq(r.bm25_weight, Rat(1, 1))
    /\ RatLeq(Rat(0, 1), r.vector_weight) /\ RatLeq(r.vector_weight, Rat(1, 1))

\* the query texts a client sends: one that normalisation and stripping
\* change, one that the spell check corrects, one that is stripped to nothing
QueryTexts == {<<"A", "!">>, <<"b", "a", "b">>, <<"!">>}

\* the modes other than hybrid ignore the weights: a request of such a mode
\* carries the default pair or one pair out of range
WeightsOf(search_type) ==
    IF search_type = "hybrid" THEN WeightPairs
    ELSE {<<Rat(1, 2), Rat(1, 2)>>, <<Rat(0 - 1, 1), Rat(3, 1)>>}

Requests ==
    {[entry |-> r[1], query |-> r[2], search_type |-> r[3], top_k |-> r[4],
      bm25_weight |-> r[5][1], vector_weight |-> r[5][2], sort_by |-> r[6]] :
        r \in {x \in {"POST", "GET"} \X QueryTexts \X SearchTypes \X TopKVals
                        \X WeightPairs \X SortBys : x[5] \in WeightsOf(x[3])}}

Init ==
    /\ pc = "Idle"
    /\ request = NoRequest
    /\ backend = [lex |-> <<>>, sem |-> <<>>, hyb |-> <<>>]
    /\ search_body = NoBody
    /\ responses = <<>>
    /\ results = <<>>
    /\ search_logs = <<>>
    /\ outcome = NoOutcome
    /\ trace = <<>>
    /\ fusion = NoFusion
    /\ calls = <<>>
    /\ qp = NoQuery
    /\ sug = NoSuggestions
    /\ db = NoDatabase

\* a request arrives, through POST /search as any SearchRequest or through
\* GET /search with parameters inside their ge/le ranges;
\* search_articles_get has no sort_by parameter, so a GET request carries the
\* default
Receive ==
    /\ pc = "Idle"
    /\ \E r \in Requests :
        /\ r.entry = "GET" => r.sort_by = "relevance" /\ GetParamsValid(r)
        /\ request' = r
        /\ \E be \in Backends(r.search_type) : backend' = be
    /\ pc' = "Received"
    /\ trace' = <<"Received">>
    /\ UNCHANGED <<sug, db, qp, calls, search_body, responses, results, search_logs, outcome, fusion>>

\* FastAPI rejects a GET request whose parameters break ge/le before the
\* handler runs
RejectGet ==
    /\ pc = "Idle"
    /\ \E r \in Requests :
        /\ r.entry = "GET" /\ r.sort_by = "relevance" /\ ~GetParamsValid(r)
        /\ request' = r
    /\ pc' = "Failed"
    /\ outcome' = [NoOutcome EXCEPT !.status = 422, !.detail = "validation error"]
    /\ UNCHANGED <<sug, db, qp, calls, backend, search_body, responses, results, search_logs, trace, fusion>>

\* client.indices.exists(index=INDEX_NAME) is true
CheckIndex ==
    /\ pc = "Received"
    /\ pc' = "IndexChecked"
    /\ calls' = Append(calls, Call("exists", "ok"))
    /\ UNCHANGED <<sug, db, qp, request, backend, search_body, responses, results, search_logs,
                   outcome, trace, fusion>>

\* IndexMissing that answers with an empty result list
IndexMissing_empty_ok ==
    /\ pc = "Received"
    /\ pc' = "Returned"
    /\ outcome' = [NoOutcome EXCEPT !.status = 200]
    /\ calls' = Append(calls, Call("exists", "false"))
    /\ UNCHANGED <<sug, db, qp, request, backend, search_body, responses, results, search_logs,
                   trace, fusion>>

\* the index does not exist: HTTPException 404, re-raised as it is
IndexMissing ==
    /\ pc = "Received"
    /\ pc' = "Failed"
    /\ outcome' = [NoOutcome EXCEPT !.status = 404,
                                    !.detail = "Index does not exist"]
    /\ calls' = Append(calls, Call("exists", "false"))
    /\ UNCHANGED <<sug, db, qp, request, backend, search_body, responses, results, search_logs,
                   trace, fusion>>

\* processor.process(original_query)
Preprocess ==
    /\ pc = "IndexChecked"
    /\ qp' = [NoQuery EXCEPT !.called = TRUE, !.raw = request.query,
                             !.processed = process(request.query, TRUE)]
    /\ pc' = "Normalized"
    /\ trace' = Append(trace, "Normalized")
    /\ UNCHANGED <<sug, db, calls, request, backend, search_body, responses, results, search_logs,
                   outcome, fusion>>

\* Encode in every branch, the bm25 one too
Encode_always ==
    /\ pc = "Normalized"
    /\ pc' = "EmbeddingComputed"
    /\ trace' = Append(trace, "EmbeddingComputed")
    /\ calls' = Append(calls, Call("encode", "ok"))
    /\ UNCHANGED <<sug, db, qp, request, backend, search_body, responses, results, search_logs,
                   outcome, fusion>>

\* model.encode(search_query) in the semantic, hybrid and rrf branches
Encode ==
    /\ pc = "Normalized"
    /\ request.search_type # "bm25"
    /\ pc' = "EmbeddingComputed"
    /\ trace' = Append(trace, "EmbeddingComputed")
    /\ calls' = Append(calls, Call("encode", "ok"))
    /\ UNCHANGED <<sug, db, qp, request, backend, search_body, responses, results, search_logs,
                   outcome, fusion>>

\* the build_*_query call of the branch; the rrf branch builds the bm25 body
\* first and the semantic body after the bm25 search has returned
Build ==
    /\ \/ pc = "Normalized" /\ request.search_type = "bm25"
       \/ pc = "EmbeddingComputed"
       \/ pc = "Executed" /\ request.search_type = "rrf" /\ Len(responses) = 1
    /\ search_body' =
         CASE request.search_type = "bm25" ->
                build_bm25_query(search_query, request.top_k)
           [] request.search_type = "semantic" ->
                build_semantic_query(query_embedding, request.top_k)
           [] request.search_type = "hybrid" ->
                LET w == NormalizeWeights(request.bm25_weight, request.vector_weight)
                IN  build_hybrid_query(search_query, query_embedding,
                                       request.top_k, w[1], w[2])
           [] request.search_type = "rrf" ->
                IF Len(responses) = 0
                THEN build_bm25_query(search_query, request.top_k * 2)
                ELSE build_semantic_query(query_embedding, request.top_k * 2)
    /\ pc' = "Built"
    /\ trace' = Append(trace, "Built")
    /\ UNCHANGED <<sug, db, qp, calls, request, backend, responses, results, search_logs, outcome, fusion>>

\* search_body = apply_sort(search_body, request.sort_by)
ApplySort ==
    /\ pc = "Built"
    /\ search_body' = apply_sort(search_body, request.sort_by)
    /\ pc' = "SortApplied"
    /\ trace' = Append(trace, "SortApplied")
    /\ UNCHANGED <<sug, db, qp, calls, request, backend, responses, results, search_logs, outcome, fusion>>

\* response = client.search(index=INDEX_NAME, body=search_body)
Search ==
    /\ pc = "SortApplied"
    /\ responses' = Append(responses, Execute(backend, search_body))
    /\ pc' = "Executed"
    /\ trace' = Append(trace, "Executed")
    /\ calls' = Append(calls, Call("search", "ok"))
    /\ UNCHANGED <<sug, db, qp, request, backend, search_body, results, search_logs, outcome, fusion>>

\* the "Format results" loop of the bm25, semantic and hybrid branches
Format ==
    /\ pc = "Executed"
    /\ request.search_type # "rrf"
    /\ results' = FormatResults(responses[1].hits)
    /\ pc' = "Formatted"
    /\ UNCHANGED <<sug, db, qp, calls, request, backend, search_body, responses, search_logs, outcome,
                   trace, fusion>>

\* results = reciprocal_rank_fusion(bm25 hits, semantic hits, k=60, top_k)
Fuse ==
    /\ pc = "Executed"
    /\ request.search_type = "rrf"
    /\ Len(responses) = 2
    /\ LET out == reciprocal_rank_fusion(responses[1].hits, responses[2].hits,
                                         RRF_K, request.top_k)
       IN  /\ results' = out
           /\ fusion' = [called |-> TRUE,
                         bm25_results |-> responses[1].hits,
                         semantic_results |-> responses[2].hits,
                         k |-> RRF_K, top_k |-> request.top_k, results |-> out]
    /\ pc' = "Fused"
    /\ trace' = Append(trace, "Fused")
    /\ UNCHANGED <<sug, db, qp, calls, request, backend, search_body, responses, search_logs, outcome>>

\* total_results of the branch: the only response's total, or for rrf the
\* max of both
TotalResults ==
    IF request.search_type = "rrf"
    THEN Max(responses[1].total, responses[2].total)
    ELSE responses[1].total

\* processed_query if was_corrected else None
ReportedQuery == IF qp.processed[2] THEN qp.processed[1] ELSE Null

\* search_log_id = log_search(...)
Log ==
    /\ pc \in {"Formatted", "Fused"}
    /\ search_logs' = log_search(search_logs, request.query, ReportedQuery,
                                 request.search_type, request.sort_by,
                                 TotalResults, Len(results))
    /\ db' = [db EXCEPT !.statements =
                  Append(@, Statement("log_search", "INSERT", "search_logs"))]
    /\ pc' = "Logged"
    /\ trace' = Append(trace, "Logged")
    /\ calls' = Append(calls, Call("log_search", "ok"))
    /\ UNCHANGED <<sug, qp, request, backend, search_body, responses, results, outcome, fusion>>

\* return SearchResponse(...)
Return ==
    /\ pc = "Logged"
    /\ outcome' = [status |-> 200, detail |-> "", total_results |-> TotalResults,
                   results |-> results,
                   search_log_id |-> search_logs[Len(search_logs)].id,
                   query |-> request.query, processed_query |-> ReportedQuery]
    /\ pc' = "Returned"
    /\ trace' = Append(trace, "Returned")
    /\ UNCHANGED <<sug, db, qp, calls, request, backend, search_body, responses, results, search_logs, fusion>>

\* the external call the handler is about to make at a point where one is due
RaisingCall ==
    CASE pc = "Received"   -> "exists"
      [] pc = "Normalized" -> "encode"
      [] pc = "SortApplied" -> "search"
      [] OTHER             -> "log_search"

\* Raise that answers a failure with an empty result list
Raise_swallow ==
    /\ \/ pc = "Received"
       \/ pc = "Normalized" /\ request.search_type # "bm25"
       \/ pc = "SortApplied"
       \/ pc \in {"Formatted", "Fused"}
    /\ pc' = "Returned"
    /\ outcome' = [NoOutcome EXCEPT !.status = 200]
    /\ calls' = Append(calls, Call(RaisingCall, "raised"))
    /\ UNCHANGED <<sug, db, qp, request, backend, search_body, responses, results, search_logs,
                   trace, fusion>>

\* Raise that sends a failed search once more
Raise_retry ==
    /\ \/ pc = "Received"
       \/ pc = "Normalized" /\ request.search_type # "bm25"
       \/ pc = "SortApplied"
       \/ pc \in {"Formatted", "Fused"}
    /\ calls' = Append(calls, Call(RaisingCall, "raised"))
    /\ IF pc = "SortApplied" /\ \A i \in DOMAIN calls : calls[i].result # "raised"
       THEN UNCHANGED <<pc, outcome>>
       ELSE /\ pc' = "Failed"
            /\ outcome' = [NoOutcome EXCEPT !.status = 500, !.detail = "Search error"]
    /\ UNCHANGED <<sug, db, qp, request, backend, search_body, responses, results,
                   search_logs, trace, fusion>>

\* Raise that, when a search of the rrf branch fails, goes on with an empty
\* list in its place
Raise_degrade ==
    /\ \/ pc = "Received"
       \/ pc = "Normalized" /\ request.search_type # "bm25"
       \/ pc = "SortApplied"
       \/ pc \in {"Formatted", "Fused"}
    /\ calls' = Append(calls, Call(RaisingCall, "raised"))
    /\ IF pc = "SortApplied" /\ request.search_type = "rrf"
       THEN /\ responses' = Append(responses, [total |-> 0, hits |-> <<>>])
            /\ pc' = "Executed"
            /\ UNCHANGED outcome
       ELSE /\ pc' = "Failed"
            /\ outcome' = [NoOutcome EXCEPT !.status = 500, !.detail = "Search error"]
            /\ UNCHANGED responses
    /\ UNCHANGED <<sug, db, qp, request, backend, search_body, results, search_logs,
                   trace, fusion>>

\* an external call raises (exists, encode, search, log_search): the handler's
\* "except Exception" turns it into HTTPException 500
Raise ==
    /\ \/ pc = "Received"
       \/ pc = "Normalized" /\ request.search_type # "bm25"
       \/ pc = "SortApplied"
       \/ pc \in {"Formatted", "Fused"}
    /\ pc' = "Failed"
    /\ outcome' = [NoOutcome EXCEPT !.status = 500, !.detail = "Search error"]
    /\ calls' = Append(calls, Call(RaisingCall, "raised"))
    /\ UNCHANGED <<sug, db, qp, request, backend, search_body, responses, results, search_logs,
                   trace, fusion>>

Next ==
    \/ Receive
    \/ RejectGet
    \/ CheckIndex
    \/ IndexMissing
    \/ Preprocess
    \/ Encode
    \/ Build
    \/ ApplySort
    \/ Search
    \/ Format
    \/ Fuse
    \/ Log
    \/ Return
    \/ Raise

Spec == Init /\ [][Next]_vars

----------------------------------------------------------------------------
\* reciprocal_rank_fusion on its own: any two candidate lists, k and top_k

\* values of k: the smallest the claims speak of, and the one the handler uses
KVals == {1, RRF_K}

\* the candidate lists: each backend returns a document at most once; the
\* payload of a hit names the list it came from
FusionInputs ==
    {[called |-> FALSE,
      bm25_results |-> HitsOf(l, l, "bm25"),
      semantic_results |-> HitsOf(s, s, "semantic"),
      k |-> k, top_k |-> n, results |-> <<>>] :
        l \in UniqueSeqs(Docs), s \in UniqueSeqs(Docs), k \in KVals, n \in TopKVals}

InitRRF ==
    /\ pc = "Fusion"
    /\ request = NoRequest
    /\ backend = [lex |-> <<>>, sem |-> <<>>, hyb |-> <<>>]
    /\ search_body = NoBody
    /\ responses = <<>>
    /\ results = <<>>
    /\ search_logs = <<>>
    /\ outcome = NoOutcome
    /\ trace = <<>>
    /\ fusion \in FusionInputs
    /\ calls = <<>>
    /\ qp = NoQuery
    /\ sug = NoSuggestions
    /\ db = NoDatabase

RunFusion ==
    /\ pc = "Fusion"
    /\ ~fusion.called
    /\ fusion' = [fusion EXCEPT
                    !.called = TRUE,
                    !.results = reciprocal_rank_fusion(fusion.bm25_results,
                                    fusion.semantic_results, fusion.k, fusion.top_k)]
    /\ UNCHANGED <<sug, db, qp, calls, pc, request, backend, search_body, responses, results,
                   search_logs, outcome, trace>>

NextRRF == RunFusion

SpecRRF == InitRRF /\ [][NextRRF]_vars

----------------------------------------------------------------------------
\* The QueryProcessor as a specification of its own

\* the query strings given to the QueryProcessor
Queries == Strings(Chars, MaxQueryLen) \cup Strings(SpellChars, MaxSpellLen)

\* a QueryProcessor and a query string, none of its methods called yet
InitQP ==
    /\ pc = "Query"
    /\ request = NoRequest
    /\ backend = [lex |-> <<>>, sem |-> <<>>, hyb |-> <<>>]
    /\ search_body = NoBody
    /\ responses = <<>>
    /\ results = <<>>
    /\ search_logs = <<>>
    /\ outcome = NoOutcome
    /\ trace = <<>>
    /\ fusion = NoFusion
    /\ calls = <<>>
    /\ \E raw \in Queries, apply_spell_check \in BOOLEAN :
           qp = [NoQuery EXCEPT !.raw = raw, !.apply_spell_check = apply_spell_check]
    /\ sug = NoSuggestions
    /\ db = NoDatabase

\* each method of the QueryProcessor applied to the query string
RunProcess ==
    /\ pc = "Query"
    /\ ~qp.called
    /\ qp' = [qp EXCEPT
                !.called = TRUE,
                !.normalized = normalize(qp.raw),
                !.stripped = remove_special_chars(qp.raw, KeepChars),
                !.spell = spell_check(qp.raw),
                !.processed = process(qp.raw, qp.apply_spell_check)]
    /\ UNCHANGED <<sug, db, calls, pc, request, backend, search_body, responses, results,
                   search_logs, outcome, trace, fusion>>

NextQP == RunProcess

SpecQP == InitQP /\ [][NextQP]_vars

----------------------------------------------------------------------------
\* The telemetry database under a sequence of requests: searches that log,
\* feedback submissions, analytics reads

\* the ratings a client sends: thumbs up, thumbs down, and two others
Ratings == {1, 0 - 1, 0, 2}

\* the searches whose log_search call is followed here: what they found
LoggedSearches ==
    {[search_type |-> t, total_results |-> n, results_returned |-> n] :
        t \in {"bm25", "rrf"}, n \in {0, 1}}

InitDB ==
    /\ pc = "Database"
    /\ request = NoRequest
    /\ backend = [lex |-> <<>>, sem |-> <<>>, hyb |-> <<>>]
    /\ search_body = NoBody
    /\ responses = <<>>
    /\ results = <<>>
    /\ search_logs = <<>>
    /\ outcome = NoOutcome
    /\ trace = <<>>
    /\ fusion = NoFusion
    /\ calls = <<>>
    /\ qp = NoQuery
    /\ sug = NoSuggestions
    /\ db = NoDatabase

\* a search request that gets as far as its log_search call, which inserts
\* the row and returns its id
SearchLogged ==
    /\ pc = "Database"
    /\ db.operations < MaxOperations
    /\ \E found \in LoggedSearches :
        /\ search_logs' = log_search(search_logs, <<"a">>, Null, found.search_type,
                                     "relevance", found.total_results,
                                     found.results_returned)
        /\ db' = [db EXCEPT
                    !.operations = @ + 1,
                    !.statements =
                        Append(@, Statement("log_search", "INSERT", "search_logs")),
                    !.last = [op |-> "search", rating |-> 0, status |-> 200,
                              id |-> Len(search_logs')]]
    /\ UNCHANGED <<sug, qp, calls, pc, request, backend, search_body, responses,
                   results, outcome, trace, fusion>>

\* POST /feedback: the rating check raises HTTPException(400) inside the try
\* block, whose "except Exception" turns every exception, that one too,
\* into HTTPException(500); a valid rating is saved, unless save_feedback
\* raises
submit_feedback ==
    /\ pc = "Database"
    /\ db.operations < MaxOperations
    /\ \E rating \in Ratings, doc_id \in {1, 2},
          search_log_id \in {0} \cup {search_logs[i].id : i \in DOMAIN search_logs},
          saved \in BOOLEAN :
        IF rating \notin {1, 0 - 1}
        THEN db' = [db EXCEPT
                      !.operations = @ + 1,
                      !.last = [op |-> "feedback", rating |-> rating,
                                status |-> 500, id |-> 0]]
        ELSE IF saved
        THEN db' = [db EXCEPT
                      !.operations = @ + 1,
                      !.feedback = save_feedback(@, doc_id, rating, search_log_id),
                      !.statements =
                          Append(@, Statement("save_feedback", "INSERT", "feedback")),
                      !.last = [op |-> "feedback", rating |-> rating,
                                status |-> 200, id |-> Len(db.feedback) + 1]]
        ELSE db' = [db EXCEPT
                      !.operations = @ + 1,
                      !.last = [op |-> "feedback", rating |-> rating,
                                status |-> 500, id |-> 0]]
    /\ UNCHANGED <<sug, qp, calls, pc, request, backend, search_body, responses,
                   results, search_logs, outcome, trace, fusion>>

\* GET /analytics: get_analytics runs SELECT statements on both tables
get_analytics_data ==
    /\ pc = "Database"
    /\ db.operations < MaxOperations
    /\ db' = [db EXCEPT
                !.operations = @ + 1,
                !.statements =
                    @ \o <<Statement("get_analytics", "SELECT", "search_logs"),
                           Statement("get_analytics", "SELECT", "feedback")>>,
                !.last = [op |-> "analytics", rating |-> 0, status |-> 200,
                          id |-> 0]]
    /\ UNCHANGED <<sug, qp, calls, pc, request, backend, search_body, responses,
                   results, search_logs, outcome, trace, fusion>>

NextDB ==
    \/ SearchLogged
    \/ submit_feedback
    \/ get_analytics_data

SpecDB == InitDB /\ [][NextDB]_vars

----------------------------------------------------------------------------
\* The suggestion cache: load_suggestions and GET /suggestions, step by step

\* the code point of a character
ord(c) ==
    CASE c = "\t" -> 9 [] c = " " -> 32 [] c = "!" -> 33 [] c = "'" -> 39
      [] c = "-" -> 45 [] c = "1" -> 49 [] c = "A" -> 65 [] c = "a" -> 97
      [] c = "b" -> 98 [] OTHER -> 233

RECURSIVE StrLess(_, _)
\* str < str: by the first character that differs, a prefix first
StrLess(a, b) ==
    IF b = <<>> THEN FALSE
    ELSE IF a = <<>> THEN TRUE
    ELSE IF Head(a) = Head(b) THEN StrLess(Tail(a), Tail(b))
    ELSE ord(Head(a)) < ord(Head(b))

RECURSIVE sorted(_)
\* sorted(list(titles)) for a set of strings
sorted(titles) ==
    IF titles = {} THEN <<>>
    ELSE LET least == CHOOSE t \in titles : \A u \in titles \ {t} : StrLess(t, u)
         IN  <<least>> \o sorted(titles \ {least})

\* the titles the index holds: one with a capital, one with a leading
\* space that equals another once stripped, and an empty one
TitlePool ==
    {<<"A", "b">>, <<" ", "a", "b">>, <<"a", "b">>, <<"b", "a">>, <<>>}

\* "Extract unique titles": the stripped titles of the hits that have one
ExtractTitles(hits) ==
    {strip(hits[i]) : i \in {j \in DOMAIN hits : hits[j] # <<>>}}

\* sub in s, for strings
contains(sub, s) ==
    \E i \in 0..(Len(s) - Len(sub)) : SubSeq(s, i + 1, i + Len(sub)) = sub

\* the test that compares the title as it is stored
TitleMatches_case_sensitive(q_lower, a_title) == contains(q_lower, a_title)

\* q_lower in title.lower()
TitleMatches(q_lower, a_title) == contains(q_lower, lower(a_title))

\* the q and limit parameters of the requests
SuggestQueries == {<<"b">>, <<"a", "b">>, <<"b", "A">>}

InitSug ==
    /\ pc = "Suggestions"
    /\ request = NoRequest
    /\ backend = [lex |-> <<>>, sem |-> <<>>, hyb |-> <<>>]
    /\ search_body = NoBody
    /\ responses = <<>>
    /\ results = <<>>
    /\ search_logs = <<>>
    /\ outcome = NoOutcome
    /\ trace = <<>>
    /\ fusion = NoFusion
    /\ calls = <<>>
    /\ qp = NoQuery
    /\ sug = NoSuggestions
    /\ db = NoDatabase

\* load_suggestions up to the end of its loop: the index exists, the search
\* returned its hits, the local set titles is built
LoadFetch ==
    /\ pc = "Suggestions"
    /\ sug.loader.pc = "idle"
    /\ sug.reloads < MaxReloads
    /\ \E hits \in Strings(TitlePool, MaxHits) :
           sug' = [sug EXCEPT !.loader = [pc |-> "fetched",
                                          titles |-> ExtractTitles(hits)]]
    /\ UNCHANGED <<db, qp, calls, pc, request, backend, search_body, responses,
                   results, search_logs, outcome, trace, fusion>>

\* LoadAssign that refills the list the cache already is
LoadAssign_in_place ==
    /\ pc = "Suggestions"
    /\ sug.loader.pc = "fetched"
    /\ sug' = [sug EXCEPT
                 !.heap[sug.suggestions_cache] = sorted(sug.loader.titles),
                 !.last_loaded = sorted(sug.loader.titles),
                 !.reloads = @ + 1,
                 !.loader = [pc |-> "idle", titles |-> {}]]
    /\ UNCHANGED <<db, qp, calls, pc, request, backend, search_body, responses,
                   results, search_logs, outcome, trace, fusion>>

\* suggestions_cache = sorted(list(titles)): a new list, bound to the global
\* name in one assignment
LoadAssign ==
    /\ pc = "Suggestions"
    /\ sug.loader.pc = "fetched"
    /\ sug' = [sug EXCEPT
                 !.heap = Append(@, sorted(sug.loader.titles)),
                 !.suggestions_cache = Len(sug.heap) + 1,
                 !.last_loaded = sorted(sug.loader.titles),
                 !.reloads = @ + 1,
                 !.loader = [pc |-> "idle", titles |-> {}]]
    /\ UNCHANGED <<db, qp, calls, pc, request, backend, search_body, responses,
                   results, search_logs, outcome, trace, fusion>>

\* the index does not exist: load_suggestions returns, the cache stays
LoadIndexMissing ==
    /\ pc = "Suggestions"
    /\ sug.loader.pc = "idle"
    /\ sug.reloads < MaxReloads
    /\ sug' = [sug EXCEPT !.reloads = @ + 1]
    /\ UNCHANGED <<db, qp, calls, pc, request, backend, search_body, responses,
                   results, search_logs, outcome, trace, fusion>>

\* an exception in the try block (client, exists, search, a hit without
\* _source): "except Exception" binds the global name to a new empty list
LoadRaise ==
    /\ pc = "Suggestions"
    /\ sug.loader.pc = "idle"
    /\ sug.reloads < MaxReloads
    /\ sug' = [sug EXCEPT
                 !.heap = Append(@, <<>>),
                 !.suggestions_cache = Len(sug.heap) + 1,
                 !.reloads = @ + 1]
    /\ UNCHANGED <<db, qp, calls, pc, request, backend, search_body, responses,
                   results, search_logs, outcome, trace, fusion>>

\* GET /suggestions starts: a q shorter than 2 returns [] at once; otherwise
\* the comprehension takes the list the global name is bound to
SuggestBegin ==
    /\ pc = "Suggestions"
    /\ sug.reader.pc = "idle"
    /\ \E q \in SuggestQueries, limit \in 1..MaxLimit :
           sug' = [sug EXCEPT !.reader =
                     IF Len(q) < 2
                     THEN [@ EXCEPT !.pc = "done", !.q = q, !.limit = limit]
                     ELSE [pc |-> "iterating", q |-> q, limit |-> limit,
                           list |-> sug.suggestions_cache,
                           bound |-> sug.heap[sug.suggestions_cache],
                           pos |-> 0, matches |-> <<>>, result |-> <<>>]]
    /\ UNCHANGED <<db, qp, calls, pc, request, backend, search_body, responses,
                   results, search_logs, outcome, trace, fusion>>

\* one iteration of the comprehension: the next title of the list taken
SuggestStep ==
    /\ pc = "Suggestions"
    /\ sug.reader.pc = "iterating"
    /\ sug.reader.pos < Len(sug.heap[sug.reader.list])
    /\ LET a_title == sug.heap[sug.reader.list][sug.reader.pos + 1]
       IN  sug' = [sug EXCEPT
                     !.reader.pos = @ + 1,
                     !.reader.matches =
                         IF TitleMatches(lower(sug.reader.q), a_title)
                         THEN Append(@, a_title) ELSE @]
    /\ UNCHANGED <<db, qp, calls, pc, request, backend, search_body, responses,
                   results, search_logs, outcome, trace, fusion>>

\* the list is exhausted: return matches[:limit]
SuggestReturn ==
    /\ pc = "Suggestions"
    /\ sug.reader.pc = "iterating"
    /\ sug.reader.pos >= Len(sug.heap[sug.reader.list])
    /\ sug' = [sug EXCEPT
                 !.reader.pc = "done",
                 !.reader.result = Take(sug.reader.matches, sug.reader.limit)]
    /\ UNCHANGED <<db, qp, calls, pc, request, backend, search_body, responses,
                   results, search_logs, outcome, trace, fusion>>

NextSug ==
    \/ LoadFetch
    \/ LoadAssign
    \/ LoadIndexMissing
    \/ LoadRaise
    \/ SuggestBegin
    \/ SuggestStep
    \/ SuggestReturn

SpecSug == InitSug /\ [][NextSug]_vars

----------------------------------------------------------------------------
\* Properties of reciprocal_rank_fusion

\* the ids of a list of hits
HitIds(hits) == {hits[i].source.id : i \in DOMAIN hits}

\* the ids of a list of results
ResultIds(rs) == {rs[i].id : i \in DOMAIN rs}

\* 1/(k + rank) for the 1-based position of id in hits, 0 when it is absent
Contribution(hits, id, k) ==
    IF id \in HitIds(hits)
    THEN Rat(1, k + (CHOOSE i \in DOMAIN hits : hits[i].source.id = id))
    ELSE Rat(0, 1)

\* the fused score of id for the arguments of the last fusion call
FusedScore(id) ==
    RatAdd(Contribution(fusion.bm25_results, id, fusion.k),
           Contribution(fusion.semantic_results, id, fusion.k))

FusionIds == HitIds(fusion.bm25_results) \cup HitIds(fusion.semantic_results)

\* C1: every document emitted by reciprocal_rank_fusion carries as score the
\* sum over the lists containing it of 1/(k + rank), rank being its 1-based
\* position in that list; the backend _score of its hits plays no part.
C1_FusedScoreIsRankSum ==
    fusion.called =>
        \A i \in DOMAIN fusion.results :
            RatEq(fusion.results[i].score, FusedScore(fusion.results[i].id))

\* a fusion that emitted a document found in both lists at different ranks
\* and a document found in one list only
C1_Witness ==
    /\ fusion.called
    /\ \E i, j \in DOMAIN fusion.results :
        /\ fusion.results[i].id \in HitIds(fusion.bm25_results)
                                    \cap HitIds(fusion.semantic_results)
        /\ ~RatEq(Contribution(fusion.bm25_results, fusion.results[i].id, fusion.k),
                  Contribution(fusion.semantic_results, fusion.results[i].id, fusion.k))
        /\ fusion.results[j].id \notin HitIds(fusion.bm25_results)

\* C2: the output has no id twice, has min(top_k, number of distinct input
\* ids) entries, every output id occurs in an input list, and when top_k is
\* at least the number of distinct ids the output ids are exactly the union.
C2_OutputIsDedupedUnion ==
    fusion.called =>
        /\ \A i, j \in DOMAIN fusion.results :
              fusion.results[i].id = fusion.results[j].id => i = j
        /\ Len(fusion.results) = Min(fusion.top_k, Cardinality(FusionIds))
        /\ ResultIds(fusion.results) \subseteq FusionIds
        /\ fusion.top_k >= Cardinality(FusionIds) =>
              ResultIds(fusion.results) = FusionIds

\* overlapping lists, each with a document of its own, all of them emitted
C2_Witness ==
    /\ fusion.called
    /\ HitIds(fusion.bm25_results) \cap HitIds(fusion.semantic_results) # {}
    /\ HitIds(fusion.bm25_results) \ HitIds(fusion.semantic_results) # {}
    /\ HitIds(fusion.semantic_results) \ HitIds(fusion.bm25_results) # {}
    /\ ResultIds(fusion.results) = FusionIds

\* C3: a successful rrf response lists its results by non-increasing fused
\* score, has at most top_k of them, and leaves out no document of the two
\* candidate lists whose fused score is strictly higher than a returned one.
C3_RrfResponseIsTopKByScore ==
    (pc = "Returned" /\ request.search_type = "rrf") =>
        /\ Len(outcome.results) <= request.top_k
        /\ \A i, j \in DOMAIN outcome.results :
              i < j => RatLeq(outcome.results[j].score, outcome.results[i].score)
        /\ \A d \in FusionIds \ ResultIds(outcome.results) :
              \A i \in DOMAIN outcome.results :
                  RatLeq(FusedScore(d), outcome.results[i].score)

\* an rrf response with two results of different scores and a document of
\* the candidate lists left out
C3_Witness ==
    /\ pc = "Returned" /\ request.search_type = "rrf"
    /\ Len(outcome.results) = 2
    /\ RatLess(outcome.results[2].score, outcome.results[1].score)
    /\ FusionIds \ ResultIds(outcome.results) # {}

\* C4: with two nonempty lists and k = 60 every emitted score s has
\* 0 < s <= 2/(k + 1).
C4_ScoreBounds ==
    (/\ fusion.called
     /\ fusion.k = RRF_K
     /\ fusion.bm25_results # <<>>
     /\ fusion.semantic_results # <<>>) =>
        \A i \in DOMAIN fusion.results :
            /\ RatLess(Rat(0, 1), fusion.results[i].score)
            /\ RatLeq(fusion.results[i].score, Rat(2, fusion.k + 1))

\* a fusion with k = 60 that emitted a document at the upper bound and one
\* below it
C4_Witness ==
    /\ fusion.called /\ fusion.k = RRF_K
    /\ fusion.bm25_results # <<>> /\ fusion.semantic_results # <<>>
    /\ \E i, j \in DOMAIN fusion.results :
        /\ RatEq(fusion.results[i].score, Rat(2, fusion.k + 1))
        /\ RatLess(fusion.results[j].score, Rat(2, fusion.k + 1))

\* the two lists have the same document at rank 1
SameTop ==
    /\ fusion.bm25_results # <<>>
    /\ fusion.semantic_results # <<>>
    /\ fusion.bm25_results[1].source.id = fusion.semantic_results[1].source.id

\* the ids found in exactly one of the two lists
InOneListOnly ==
    (HitIds(fusion.bm25_results) \cup HitIds(fusion.semantic_results))
        \ (HitIds(fusion.bm25_results) \cap HitIds(fusion.semantic_results))

\* C5: a document at rank 1 in both lists is the first element of the output
\* and has a strictly greater fused score than every document found in only
\* one of the lists, all of which come after it.
C5_DoubleTopComesFirst ==
    (fusion.called /\ SameTop) =>
        /\ fusion.results # <<>>
        /\ fusion.results[1].id = fusion.bm25_results[1].source.id
        /\ \A d \in InOneListOnly :
              RatLess(FusedScore(d), fusion.results[1].score)
        /\ \A i \in DOMAIN fusion.results :
              fusion.results[i].id \in InOneListOnly => i > 1

\* a fusion of two lists with the same first document that also emitted a
\* document found in one list only
C5_Witness ==
    /\ fusion.called /\ SameTop
    /\ \E i \in DOMAIN fusion.results : fusion.results[i].id \in InOneListOnly

\* C6: the payload emitted for an id is that of the first hit mentioning it,
\* the bm25 list being folded first: the bm25 hit's when the id is in the
\* bm25 list, the semantic hit's otherwise.
C6_PayloadOfFirstHit ==
    fusion.called =>
        \A i \in DOMAIN fusion.results :
            LET id == fusion.results[i].id
                hits == IF id \in HitIds(fusion.bm25_results)
                        THEN fusion.bm25_results
                        ELSE fusion.semantic_results
                hit == hits[CHOOSE n \in DOMAIN hits : hits[n].source.id = id]
            IN  /\ fusion.results[i].excerpt = hit.source.excerpt
                /\ fusion.results[i].title = hit.source.title
                /\ fusion.results[i].published_at = hit.source.published_at

\* a fusion that emitted a document found in both lists, with the bm25
\* payload, and a document found in the semantic list only, with the
\* semantic payload
C6_Witness ==
    /\ fusion.called
    /\ \E i, j \in DOMAIN fusion.results :
        /\ fusion.results[i].id \in HitIds(fusion.bm25_results)
                                    \cap HitIds(fusion.semantic_results)
        /\ fusion.results[i].excerpt = "bm25"
        /\ fusion.results[j].id \notin HitIds(fusion.bm25_results)
        /\ fusion.results[j].excerpt = "semantic"

----------------------------------------------------------------------------
\* Properties of the /search handler

\* C7: the weights handed to build_hybrid_query are non-negative and sum to
\* 1: the supplied weights divided by their sum when the sum is not zero,
\* (0.5, 0.5) when it is, and no division by a zero sum takes place.
C7_HybridWeightsNormalized ==
    search_body.kind = "bool" =>
        LET total == RatAdd(request.bm25_weight, request.vector_weight)
            w1 == search_body.bm25_boost
            w2 == search_body.vector_boost
        IN  /\ w1[2] # 0 /\ w2[2] # 0
            /\ RatLeq(Rat(0, 1), w1) /\ RatLeq(Rat(0, 1), w2)
            /\ RatEq(RatAdd(w1, w2), Rat(1, 1))
            /\ total[1] = 0 => RatEq(w1, Rat(1, 2)) /\ RatEq(w2, Rat(1, 2))
            /\ total[1] # 0 =>
                  /\ RatEq(w1, RatQuot(request.bm25_weight, total))
                  /\ RatEq(w2, RatQuot(request.vector_weight, total))

\* the positions of step e in the trace
StepsAt(e) == {i \in DOMAIN trace : trace[i] = e}

\* every occurrence of step a comes before every occurrence of step b
AllBefore(a, b) == \A i \in StepsAt(a), j \in StepsAt(b) : i < j

\* C8: a returned request went through Received, Normalized,
\* EmbeddingComputed (iff the mode is not bm25), Built, Executed, Fused (iff
\* the mode is rrf), SortApplied, Logged, Returned in this order: the sort is
\* applied after every backend query and after the fusion, and the log record
\* is written before the response is returned.
C8_StepsInOrder ==
    pc = "Returned" =>
        /\ trace[1] = "Received" /\ trace[2] = "Normalized"
        /\ (StepsAt("EmbeddingComputed") # {}) <=> (request.search_type # "bm25")
        /\ AllBefore("Normalized", "EmbeddingComputed")
        /\ AllBefore("EmbeddingComputed", "Built")
        /\ StepsAt("Built") # {} /\ StepsAt("Executed") # {}
        /\ \A j \in StepsAt("Executed") : \E i \in StepsAt("Built") : i < j
        /\ (StepsAt("Fused") # {}) <=> (request.search_type = "rrf")
        /\ AllBefore("Executed", "Fused")
        /\ StepsAt("SortApplied") # {}
        /\ AllBefore("Executed", "SortApplied")
        /\ AllBefore("Fused", "SortApplied")
        /\ AllBefore("SortApplied", "Logged")
        /\ StepsAt("Logged") # {}
        /\ AllBefore("Logged", "Returned")
        /\ trace[Len(trace)] = "Returned"

\* the results rs are ordered by the key of sort_by
OrderedBy(rs, sort_by) ==
    \A i, j \in DOMAIN rs :
        i < j =>
            CASE sort_by = "date_desc" -> rs[i].published_at >= rs[j].published_at
              [] sort_by = "date_asc"  -> rs[i].published_at <= rs[j].published_at
              [] sort_by = "title_az"  -> rs[i].title <= rs[j].title
              [] OTHER                 -> RatLeq(rs[j].score, rs[i].score)

\* C9: in every mode the returned list is ordered by the key of sort_by
\* (published_at descending, published_at ascending, title ascending), and by
\* relevance when sort_by is relevance.
C9_ResultsOrderedBySortKey ==
    pc = "Returned" => OrderedBy(outcome.results, request.sort_by)

\* search_articles as a function of the request and the index: the result
\* list of a request that meets no failure
SearchResults(req, be) ==
    CASE req.search_type = "bm25" ->
            FormatResults(Execute(be,
                apply_sort(build_bm25_query(req.query, req.top_k), req.sort_by)).hits)
      [] req.search_type = "semantic" ->
            FormatResults(Execute(be,
                apply_sort(build_semantic_query(encode(req.query), req.top_k), req.sort_by)).hits)
      [] req.search_type = "hybrid" ->
            LET w == NormalizeWeights(req.bm25_weight, req.vector_weight)
            IN  FormatResults(Execute(be,
                    apply_sort(build_hybrid_query(req.query, encode(req.query), req.top_k, w[1], w[2]),
                               req.sort_by)).hits)
      [] req.search_type = "rrf" ->
            reciprocal_rank_fusion(
                Execute(be, apply_sort(build_bm25_query(req.query, req.top_k * 2),
                                       req.sort_by)).hits,
                Execute(be, apply_sort(build_semantic_query(encode(req.query), req.top_k * 2),
                                       req.sort_by)).hits,
                RRF_K, req.top_k)

\* C10: the ids and the number of the results returned under a sort option
\* are those returned for the same request and index under relevance.
C10_SortKeepsMembership ==
    pc = "Returned" =>
        LET rel == SearchResults([request EXCEPT !.sort_by = "relevance"], backend)
        IN  /\ ResultIds(outcome.results) = ResultIds(rel)
            /\ Len(outcome.results) = Len(rel)

----------------------------------------------------------------------------
\* Properties of the handler's failures

\* the positions in calls of the calls of op that ended with result
CallsOf(op, result) ==
    {i \in DOMAIN calls : calls[i].op = op /\ calls[i].result = result}

\* the positions in calls of the calls of op
AllCallsOf(op) == {i \in DOMAIN calls : calls[i].op = op}

\* C11: the embedding function is invoked iff the mode is semantic, hybrid
\* or rrf: a bm25 request never calls it, a request of another mode has
\* called it once before its first search, and no bm25 request fails
\* through it.
C11_EmbeddingIffNotLexical ==
    /\ request.search_type = "bm25" => AllCallsOf("encode") = {}
    /\ (request.search_type # "bm25" /\ AllCallsOf("search") # {}) =>
          /\ Cardinality(CallsOf("encode", "ok")) = 1
          /\ \A i \in AllCallsOf("encode"), j \in AllCallsOf("search") : i < j
    /\ (request.search_type = "bm25" /\ pc = "Failed") =>
          CallsOf("encode", "raised") = {}

\* a request of a mode other than bm25 that was answered after one encode call
C11_Witness ==
    /\ pc = "Returned"
    /\ request.search_type = "hybrid"
    /\ Cardinality(AllCallsOf("encode")) = 1

\* the calls by which the handler learns that the index is missing or the
\* backend unreachable
BackendFailures ==
    CallsOf("exists", "false") \cup CallsOf("exists", "raised")
        \cup CallsOf("search", "raised")

\* C12: when the index does not exist or the backend cannot be reached the
\* request ends in an error that carries the reason: no results, no further
\* call (no search in another mode, no log record).
C12_BackendFailureFailsFast ==
    \A i \in BackendFailures :
        /\ i = Len(calls)
        /\ pc = "Failed"
        /\ outcome.status \in {404, 500}
        /\ outcome.detail # ""
        /\ outcome.results = <<>>
        /\ outcome.total_results = 0
        /\ search_logs = <<>>

\* a request that found the index missing
C12_Witness ==
    /\ CallsOf("exists", "false") # {}
    /\ outcome.status = 404

\* C13: a request whose log_search call fails after its backend queries
\* succeeded still answers with its result list.
C13_LogFailureDoesNotFailSearch ==
    (pc \in {"Returned", "Failed"} /\ CallsOf("log_search", "raised") # {}) =>
        /\ outcome.status = 200
        /\ outcome.results = results

\* C14: in rrf mode a failed sub-query fails the whole request:
\* reciprocal_rank_fusion is not run and no result list is returned.
C14_RrfSubQueryFailureFailsRequest ==
    (request.search_type = "rrf" /\ CallsOf("search", "raised") # {}) =>
        /\ ~fusion.called
        /\ pc = "Failed"
        /\ outcome.status = 500
        /\ outcome.results = <<>>
        /\ results = <<>>

\* an rrf request whose bm25 search succeeded and whose semantic search failed
C14_Witness ==
    /\ request.search_type = "rrf"
    /\ CallsOf("search", "ok") # {}
    /\ CallsOf("search", "raised") # {}
    /\ \A i \in CallsOf("search", "ok") : calls[i].body.kind = "multi_match"

\* C15: a request that reaches the core logic, through POST or GET, has
\* top_k in [1, 100] and both weights in [0, 1].
C15_CoreSeesValidatedParameters ==
    (\E i \in DOMAIN trace : trace[i] = "Normalized") =>
        /\ request.top_k >= TOP_K_MIN /\ request.top_k <= TOP_K_MAX
        /\ RatLeq(Rat(0, 1), request.bm25_weight)
        /\ RatLeq(request.bm25_weight, Rat(1, 1))
        /\ RatLeq(Rat(0, 1), request.vector_weight)
        /\ RatLeq(request.vector_weight, Rat(1, 1))

\* C16: a request that met a failure ends with an explicit error, never
\* with a success; a success with no results comes only from backend
\* queries that all succeeded and returned no hit.
C16_FailureIsNotEmptySuccess ==
    /\ (BackendFailures # {} \/ \E i \in DOMAIN calls : calls[i].result = "raised") =>
          /\ pc = "Failed"
          /\ outcome.status \in {404, 500}
          /\ outcome.detail # ""
    /\ pc = "Failed" => outcome.status \in {404, 422, 500}
    /\ (outcome.status = 200 /\ outcome.results = <<>>) =>
          /\ \A i \in DOMAIN calls : calls[i].result = "ok"
          /\ CallsOf("search", "ok") # {}
          /\ Len(responses) = Cardinality(AllCallsOf("search"))
          /\ \A i \in DOMAIN responses : responses[i].hits = <<>>

\* a request answered with success and an empty list, the backend having
\* found nothing
C16_Witness ==
    /\ outcome.status = 200
    /\ outcome.results = <<>>
    /\ responses # <<>>

----------------------------------------------------------------------------
\* Properties of the QueryProcessor

\* the words of a string, each in lowercase
LowerWords(query) == [i \in DOMAIN split(query) |-> lower(split(query)[i])]

\* the string is empty or of whitespace alone
IsBlank(query) == \A i \in DOMAIN query : isspace(query[i])

\* C17: process returns (raw, false) for empty or whitespace-only input;
\* otherwise its text is spell_check(remove_special_chars(normalize(raw)))
\* with spell check enabled and remove_special_chars(normalize(raw))
\* without, and its flag is true iff the spell-check stage replaced a token.
C17_ProcessComposesStages ==
    qp.called =>
        LET cleaned == remove_special_chars(normalize(qp.raw), KeepChars)
            checked == spell_check(cleaned)
            words   == split(cleaned)
            replaced == \E i \in DOMAIN words : checked.corrected_words[i] # words[i]
        IN  IF IsBlank(qp.raw)
            THEN qp.processed = <<qp.raw, FALSE>>
            ELSE IF qp.apply_spell_check
            THEN qp.processed = <<checked.text, replaced>>
            ELSE qp.processed = <<cleaned, FALSE>>

\* spell check enabled, a text changed by normalisation and stripping, no
\* token replaced
C17_Witness ==
    /\ qp.called
    /\ qp.apply_spell_check
    /\ ~IsBlank(qp.raw)
    /\ qp.processed[1] # qp.raw
    /\ qp.processed[2] = FALSE

isalnum(c) == c \in {"a", "b", "A", "1", "e_acute"}

\* C19: remove_special_chars removes exactly the characters that are not
\* alphanumeric, not whitespace and not in keep, keeps the others in their
\* order, then collapses whitespace runs and trims.
C19_StripKeepsAlphanumerics ==
    qp.called =>
        qp.stripped = join(split(SelectSeq(qp.raw,
            LAMBDA c : isalnum(c) \/ isspace(c) \/ c \in KeepChars)))

\* the words of a string that spell_check must not look up
IsShortOrNumeric(word) == Len(word) <= 2 \/ \E i \in DOMAIN word : word[i] = "1"

\* C20: spell_check passes every token of length <= 2 or with a digit
\* through unchanged and does not look it up; it keeps the number and the
\* order of the tokens and joins them with single spaces; the flag is true
\* iff some token was replaced by a correction different from it.
C20_SpellCheckSkipsShortAndNumeric ==
    qp.called =>
        LET words == split(qp.raw)
            out   == qp.spell.corrected_words
        IN  /\ Len(out) = Len(words)
            /\ \A i \in DOMAIN words :
                   /\ IsShortOrNumeric(words[i]) =>
                          /\ out[i] = words[i]
                          /\ \A j \in DOMAIN qp.spell.consulted :
                                 qp.spell.consulted[j] # words[i]
                   /\ out[i] # words[i] =>
                          out[i] = correction(words[i]) /\ out[i] # <<>>
            /\ qp.spell.consulted = SelectSeq(words, LAMBDA w : ~IsShortOrNumeric(w))
            /\ qp.spell.text = join(out)
            /\ qp.spell.was_corrected <=> \E i \in DOMAIN words : out[i] # words[i]

\* a query of a short token and a token with a digit, both of which the
\* dictionary would change, returned as it is with the flag false
C20_Witness ==
    /\ qp.called
    /\ Len(split(qp.raw)) = 2
    /\ \A i \in DOMAIN split(qp.raw) :
           /\ IsShortOrNumeric(split(qp.raw)[i])
           /\ correction(split(qp.raw)[i]) # split(qp.raw)[i]
    /\ \E i \in DOMAIN split(qp.raw) : \E j \in DOMAIN split(qp.raw)[i] :
           split(qp.raw)[i][j] = "1"
    /\ qp.spell.text = qp.raw
    /\ ~qp.spell.was_corrected

----------------------------------------------------------------------------
\* Further properties of the /search handler

\* the bodies of the searches sent so far, in order
SearchBodies ==
    LET sent == SelectSeq(calls, LAMBDA c : c.op = "search")
    IN  [i \in DOMAIN sent |-> sent[i].body]

\* C25: a request sends one backend search in bm25, semantic and hybrid
\* mode and two in rrf mode, a lexical and a semantic one that each ask for
\* 2 * top_k candidates; a failed call is the last call of the request, so
\* no search is sent again, and the request ends there.
C25_SearchCountPerMode ==
    /\ Len(SearchBodies) <= (IF request.search_type = "rrf" THEN 2 ELSE 1)
    /\ \A i \in DOMAIN calls :
           calls[i].result = "raised" => i = Len(calls) /\ pc = "Failed"
    /\ pc = "Returned" =>
          /\ \A i \in DOMAIN calls : calls[i].result = "ok"
          /\ IF request.search_type = "rrf"
             THEN /\ Len(SearchBodies) = 2
                  /\ SearchBodies[1].kind = "multi_match"
                  /\ SearchBodies[1].size = 2 * request.top_k
                  /\ SearchBodies[2].kind = "knn"
                  /\ SearchBodies[2].size = 2 * request.top_k
                  /\ SearchBodies[2].k = 2 * request.top_k
             ELSE /\ Len(SearchBodies) = 1
                  /\ SearchBodies[1].size = request.top_k
                  /\ SearchBodies[1].kind =
                        CASE request.search_type = "bm25" -> "multi_match"
                          [] request.search_type = "semantic" -> "knn"
                          [] OTHER -> "bool"

\* an rrf request answered after its two searches
C25_Witness ==
    /\ pc = "Returned"
    /\ request.search_type = "rrf"
    /\ Len(SearchBodies) = 2

ProcessedText ==
    spell_check(remove_special_chars(normalize(request.query), KeepChars))

\* C29: for a non-blank query the text sent to the backend and to the
\* embedding function is the processed query, never the raw text; the
\* response and the log row carry processed_query iff the spell check
\* changed a token, and null otherwise.
C29_BackendGetsProcessedQuery ==
    (request.query # <<>> /\ \E i \in DOMAIN request.query : ~isspace(request.query[i])) =>
        /\ \A i \in DOMAIN calls :
              /\ calls[i].op = "encode" => calls[i].body.query = ProcessedText.text
              /\ (calls[i].op = "search" /\ calls[i].body.kind \in {"multi_match", "bool"}) =>
                    calls[i].body.query = ProcessedText.text
              /\ (calls[i].op = "search" /\ calls[i].body.kind \in {"knn", "bool"}) =>
                    calls[i].body.vector = [embedding_of |-> ProcessedText.text]
        /\ pc = "Returned" =>
              /\ outcome.processed_query =
                    (IF ProcessedText.was_corrected THEN ProcessedText.text ELSE Null)
              /\ \A i \in DOMAIN search_logs :
                    search_logs[i].processed_query = outcome.processed_query

----------------------------------------------------------------------------
\* Further properties of reciprocal_rank_fusion

\* the ids of a result list, in order
IdsInOrder(rs) == [i \in DOMAIN rs |-> rs[i].id]

\* the last fusion call with its two lists exchanged
SwappedFusion(top_k) ==
    reciprocal_rank_fusion(fusion.semantic_results, fusion.bm25_results,
                           fusion.k, top_k)

\* the last fusion call with another cut
SameFusion(top_k) ==
    reciprocal_rank_fusion(fusion.bm25_results, fusion.semantic_results,
                           fusion.k, top_k)

\* no two documents of the two lists have the same fused score
NoScoreTies ==
    \A a \in FusionIds, b \in FusionIds :
        a # b => ~RatEq(FusedScore(a), FusedScore(b))

\* C26: fusion does not depend on which list is folded first: with the two
\* lists exchanged every id gets the same fused score, and when no two ids
\* have equal fused scores the same sequence of ids is returned.
C26_FusionIsSymmetric ==
    fusion.called =>
        LET all == SameFusion(2 * NumDocs)
            swapped == SwappedFusion(2 * NumDocs)
        IN  /\ ResultIds(all) = ResultIds(swapped)
            /\ \A i \in DOMAIN all, j \in DOMAIN swapped :
                   all[i].id = swapped[j].id => RatEq(all[i].score, swapped[j].score)
            /\ \A i \in DOMAIN fusion.results, j \in DOMAIN SwappedFusion(fusion.top_k) :
                   fusion.results[i].id = SwappedFusion(fusion.top_k)[j].id =>
                       RatEq(fusion.results[i].score, SwappedFusion(fusion.top_k)[j].score)
            /\ NoScoreTies =>
                   IdsInOrder(fusion.results) = IdsInOrder(SwappedFusion(fusion.top_k))

\* a fusion of two different lists that share a document at different ranks,
\* without score ties
C26_Witness ==
    /\ fusion.called
    /\ NoScoreTies
    /\ Len(fusion.results) >= 2
    /\ \E i \in DOMAIN fusion.bm25_results, j \in DOMAIN fusion.semantic_results :
           /\ i # j
           /\ fusion.bm25_results[i].source.id = fusion.semantic_results[j].source.id

\* the place of id in the order of first encounter: the lexical list, then
\* the documents of the semantic list alone
Encounter(id) ==
    IF id \in HitIds(fusion.bm25_results)
    THEN CHOOSE i \in DOMAIN fusion.bm25_results :
             fusion.bm25_results[i].source.id = id
    ELSE Len(fusion.bm25_results) +
         (CHOOSE i \in DOMAIN fusion.semantic_results :
              fusion.semantic_results[i].source.id = id)

\* C27: reciprocal_rank_fusion is deterministic, on score ties too: ids of
\* equal fused score come in the order of first encounter (lexical list in
\* order, then semantic-only ids in order), inside the result and across
\* the cut.
C27_TiesInEncounterOrder ==
    fusion.called =>
        /\ fusion.results = SameFusion(fusion.top_k)
        /\ \A i \in DOMAIN fusion.results, j \in DOMAIN fusion.results :
               (i < j /\ RatEq(fusion.results[i].score, fusion.results[j].score)) =>
                   Encounter(fusion.results[i].id) < Encounter(fusion.results[j].id)
        /\ \A i \in DOMAIN fusion.results :
               \A id \in FusionIds \ ResultIds(fusion.results) :
                   RatEq(fusion.results[i].score, FusedScore(id)) =>
                       Encounter(fusion.results[i].id) < Encounter(id)

\* a fusion that returned two documents of equal fused score, one from each
\* list
C27_Witness ==
    /\ fusion.called
    /\ \E i \in DOMAIN fusion.results, j \in DOMAIN fusion.results :
           /\ i < j
           /\ RatEq(fusion.results[i].score, fusion.results[j].score)
           /\ fusion.results[i].id \in HitIds(fusion.bm25_results)
           /\ fusion.results[j].id \notin HitIds(fusion.bm25_results)

----------------------------------------------------------------------------
\* Properties of the telemetry database

\* C23: a feedback submission whose rating is not +1 or -1 is rejected with
\* a 400 error and stores no record; only ratings in {+1, -1} create one.
C23_InvalidRatingIs400 ==
    /\ (db.last.op = "feedback" /\ db.last.rating \notin {1, 0 - 1}) =>
           db.last.status = 400
    /\ \A i \in DOMAIN db.feedback : db.feedback[i].rating \in {1, 0 - 1}

\* every row of the table is still there, unchanged, in its next state, and
\* at most one row was added, with an id no row had
GrowsByFreshRows(table, next) ==
    /\ Len(next) \in {Len(table), Len(table) + 1}
    /\ \A i \in DOMAIN table : next[i] = table[i]
    /\ \A i \in DOMAIN next : \A j \in DOMAIN next : next[i].id = next[j].id => i = j

\* the statements run by the step
NewStatements == SubSeq(db'.statements, Len(db.statements) + 1, Len(db'.statements))

\* C24: search-log and feedback records are append-only: every step keeps
\* every row written so far with its values, each INSERT adds exactly one
\* row with a fresh id, and the search path runs no SELECT.
C24_RecordsAppendOnly ==
    [][/\ GrowsByFreshRows(search_logs, search_logs')
       /\ GrowsByFreshRows(db.feedback, db'.feedback)
       /\ Len(search_logs') - Len(search_logs) =
              Len(SelectSeq(NewStatements,
                    LAMBDA st : st.verb = "INSERT" /\ st.table = "search_logs"))
       /\ Len(db'.feedback) - Len(db.feedback) =
              Len(SelectSeq(NewStatements,
                    LAMBDA st : st.verb = "INSERT" /\ st.table = "feedback"))
       /\ \A i \in DOMAIN NewStatements :
              NewStatements[i].by = "log_search" => NewStatements[i].verb = "INSERT"
      ]_vars

\* a search logged and a feedback stored, then an analytics read
C24_Witness ==
    /\ Len(search_logs) + Len(db.feedback) >= 2
    /\ db.feedback # <<>>
    /\ search_logs # <<>>
    /\ \E i \in DOMAIN db.statements : db.statements[i].verb = "SELECT"

----------------------------------------------------------------------------
\* Properties of the suggestion cache

\* q occurs in a title when case is ignored
OccursIgnoringCase(q, a_title) ==
    \E i \in 0..(Len(a_title) - Len(q)) :
        \A j \in 1..Len(q) :
            LET a == q[j]
                b == a_title[i + j]
            IN  a = b \/ (a = "A" /\ b = "a") \/ (a = "a" /\ b = "A")

\* the titles of the list that hold q, in the order of the list
MatchesOf(list, q) == SelectSeq(list, LAMBDA a_title : OccursIgnoringCase(q, a_title))

\* the first n elements of a list
FirstN(list, n) == [i \in 1..(IF n < Len(list) THEN n ELSE Len(list)) |-> list[i]]

\* C21: a reader of the suggestion cache that runs along with reloads works
\* on one complete snapshot: the list it took is never changed under it, its
\* matches so far are those of the part of that snapshot it has passed, and
\* its result is the answer for that snapshot.
C21_ReaderSeesOneSnapshot ==
    (sug.reader.pc # "idle" /\ Len(sug.reader.q) >= 2) =>
        /\ sug.heap[sug.reader.list] = sug.reader.bound
        /\ sug.reader.matches =
               MatchesOf(FirstN(sug.reader.bound, sug.reader.pos), sug.reader.q)
        /\ sug.reader.pc = "done" =>
               sug.reader.result =
                   FirstN(MatchesOf(sug.reader.bound, sug.reader.q), sug.reader.limit)

\* a reader half-way through its list while a reload has replaced the cache
\* by other content
C21_Witness ==
    /\ sug.reader.pc = "iterating"
    /\ sug.reader.pos >= 1
    /\ sug.reader.pos < Len(sug.reader.bound)
    /\ sug.suggestions_cache # sug.reader.list
    /\ sug.heap[sug.suggestions_cache] # sug.reader.bound
    /\ sug.heap[sug.suggestions_cache] # <<>>

\* C22: get_suggestions returns the first limit titles of the cache, in the
\* cache's order, among those that contain q when case is ignored: a
\* subsequence of the cache of at most limit entries, empty when q has
\* fewer than 2 characters.
C22_FirstLimitMatches ==
    sug.reader.pc = "done" =>
        /\ Len(sug.reader.result) <= sug.reader.limit
        /\ IF Len(sug.reader.q) < 2
           THEN sug.reader.result = <<>>
           ELSE sug.reader.result =
                    FirstN(MatchesOf(sug.reader.bound, sug.reader.q), sug.reader.limit)

\* a request whose q differs in case from a title it matches, and that has
\* more matches than its limit
C22_Witness ==
    /\ sug.reader.pc = "done"
    /\ Len(sug.reader.q) >= 2
    /\ Len(MatchesOf(sug.reader.bound, sug.reader.q)) > sug.reader.limit
    /\ sug.reader.result # <<>>
    /\ ~contains(sug.reader.q, sug.reader.result[1])

\* C30: a reload that fails leaves the loaded snapshot in place: the cache
\* holds the sorted, duplicate-free titles of the most recent successful
\* load, whether a later reload found no index or raised an error.
C30_FailedReloadKeepsSnapshot ==
    LET cache == sug.heap[sug.suggestions_cache] IN
    /\ cache = sug.last_loaded
    /\ \A i \in DOMAIN cache : \A j \in DOMAIN cache : i < j => StrLess(cache[i], cache[j])

====
